---- MODULE Spec2Model ----
(***************************************************************************)
(* cssSelectorBuilder of src/src/05-objects-tasks.js as a state machine.   *)
(*                                                                         *)
(* The heap is a sequence of objects.  heap[ROOT] is the cssSelectorBuilder*)
(* object literal itself; every other object was created by `{}` followed  *)
(* by Object.setPrototypeOf(obj, cssSelectorBuilder), so a property it     *)
(* does not own is read from the root.  A JavaScript string is a sequence  *)
(* of one-character strings, an array a sequence of such strings.          *)
(***************************************************************************)
EXTENDS Integers, Sequences, FiniteSets, TLC

(* ----------------------------- bounds ---------------------------------- *)
\* calls the caller makes after the module is loaded
MaxCalls == 3

(* ----------------------------- values ---------------------------------- *)
Values == {<<>>, <<"a">>, <<"b">>}
\* two of ' ', '+', '~', '>': combine only copies its combinator into the string
Combinators == {<<" ">>, <<"+">>}

Absent == [k |-> "absent", v |-> <<>>]
Undef == [k |-> "undefined", v |-> <<>>]
Str(s) == [k |-> "string", v |-> <<s>>]
Arr(a) == [k |-> "array", v |-> a]

Fields == {"tag", "myId", "classes", "attribute", "pseudoClasses", "pseudoElem", "combination"}
ROOT == 1
EmptyObj == [f \in Fields |-> Absent]

DUP == "DuplicateFragment"
ORDER == "OrderViolation"
TYPEERR == "TypeError"

(* ------------------------ JavaScript primitives ------------------------ *)
\* a presence test by !== undefined instead of truthiness
Truthy_EmptyIsTrue(x) == x.k \in {"array", "string"}

\* ToBoolean: undefined and '' are falsy, a non-empty string and any array are truthy
Truthy(x) == \/ x.k = "array"
             \/ x.k = "string" /\ x.v[1] # <<>>

\* property read with one step of prototype lookup
Get(h, o, f) == IF h[o][f].k # "absent" THEN h[o][f]
                ELSE IF o # ROOT /\ h[ROOT][f].k # "absent" THEN h[ROOT][f]
                ELSE Undef

\* the object that holds the property a read of o.f finds
Holder(h, o, f) == IF h[o][f].k # "absent" THEN o ELSE ROOT

\* property write: always an own property of o
Put(h, o, f, x) == [h EXCEPT ![o][f] = x]

\* String(x) as + and template literals apply it to a string or an array of strings
RECURSIVE Join(_, _)
Join(a, sep) == IF a = <<>> THEN <<>>
                ELSE IF Len(a) = 1 THEN a[1]
                ELSE a[1] \o sep \o Join(Tail(a), sep)

Result(h, out, ret, str) == [h |-> h, out |-> out, ret |-> ret, str |-> str]
Raise(h, err) == Result(h, err, 0, <<>>)

\* {} + Object.setPrototypeOf(obj, cssSelectorBuilder) + obj[f] = x
New(h, f, x) == Append(h, [EmptyObj EXCEPT ![f] = x])

(* ------------------------------ methods -------------------------------- *)
\* this[f].push(x): the array is changed in place, in the object that holds it
Push(h, this, f, x) ==
    LET a == Get(h, this, f)
    IN  IF a.k # "array" THEN Raise(h, TYPEERR)
        ELSE Result(Put(h, Holder(h, this, f), f, Arr(Append(a.v, x))), "ok", this, <<>>)

\* element without the check of line 121
element_NoDuplicateCheck(h, this, value) ==
    IF Truthy(Get(h, this, "myId")) THEN Raise(h, ORDER)
    ELSE Result(New(h, "tag", Str(value)), "ok", Len(h) + 1, <<>>)

\* element without the check of line 127
element_NoIdCheck(h, this, value) ==
    IF Truthy(Get(h, this, "tag")) THEN Raise(h, DUP)
    ELSE Result(New(h, "tag", Str(value)), "ok", Len(h) + 1, <<>>)

element(h, this, value) ==
    IF Truthy(Get(h, this, "tag")) THEN Raise(h, DUP)
    ELSE IF Truthy(Get(h, this, "myId")) THEN Raise(h, ORDER)
    ELSE Result(New(h, "tag", Str(value)), "ok", Len(h) + 1, <<>>)

\* id without the check of line 142
id_NoClassCheck(h, this, value) ==
    IF Get(h, this, "pseudoElem").k # "undefined" THEN Raise(h, ORDER)
    ELSE IF Truthy(Get(h, this, "myId")) THEN Raise(h, DUP)
    ELSE IF Get(h, this, "pseudoClasses").k # "undefined" THEN Raise(h, ORDER)
    ELSE IF Truthy(Get(h, this, "tag"))
         THEN Result(Put(h, this, "myId", Str(value)), "ok", this, <<>>)
         ELSE Result(New(h, "myId", Str(value)), "ok", Len(h) + 1, <<>>)

\* id starting a new object even when this.tag is set (without lines 151-153)
id_AlwaysNew(h, this, value) ==
    IF Get(h, this, "pseudoElem").k # "undefined" THEN Raise(h, ORDER)
    ELSE IF Truthy(Get(h, this, "myId")) THEN Raise(h, DUP)
    ELSE IF Get(h, this, "classes").k # "undefined" THEN Raise(h, ORDER)
    ELSE IF Get(h, this, "pseudoClasses").k # "undefined" THEN Raise(h, ORDER)
    ELSE Result(New(h, "myId", Str(value)), "ok", Len(h) + 1, <<>>)

id(h, this, value) ==
    IF Get(h, this, "pseudoElem").k # "undefined" THEN Raise(h, ORDER)
    ELSE IF Truthy(Get(h, this, "myId")) THEN Raise(h, DUP)
    ELSE IF Get(h, this, "classes").k # "undefined" THEN Raise(h, ORDER)
    ELSE IF Get(h, this, "pseudoClasses").k # "undefined" THEN Raise(h, ORDER)
    ELSE IF Truthy(Get(h, this, "tag"))
         THEN Result(Put(h, this, "myId", Str(value)), "ok", this, <<>>)
         ELSE Result(New(h, "myId", Str(value)), "ok", Len(h) + 1, <<>>)

\* class without the check of line 159
class_NoOrderCheck(h, this, value) ==
    LET h1 == IF Get(h, this, "classes").k = "undefined"
              THEN Put(h, this, "classes", Arr(<<>>)) ELSE h
        r == Push(h1, this, "classes", value)
    IN  IF r.out # "ok" THEN r
        ELSE Result(Put(r.h, this, "pseudoClasses", Undef), "ok", this, <<>>)

\* class without the assignment of line 164
class_KeepsPseudoClasses(h, this, value) ==
    IF Truthy(Get(h, this, "attribute")) THEN Raise(h, ORDER)
    ELSE LET h1 == IF Get(h, this, "classes").k = "undefined"
                   THEN Put(h, this, "classes", Arr(<<>>)) ELSE h
         IN  Push(h1, this, "classes", value)

class(h, this, value) ==
    IF Truthy(Get(h, this, "attribute")) THEN Raise(h, ORDER)
    ELSE LET h1 == IF Get(h, this, "classes").k = "undefined"
                   THEN Put(h, this, "classes", Arr(<<>>)) ELSE h
             r == Push(h1, this, "classes", value)
         IN  IF r.out # "ok" THEN r
             ELSE Result(Put(r.h, this, "pseudoClasses", Undef), "ok", this, <<>>)

\* attr without the assignment of line 174
attr_KeepsPseudoElem(h, this, value) ==
    IF Get(h, this, "pseudoClasses").k # "undefined" THEN Raise(h, ORDER)
    ELSE LET h1 == Put(h, this, "attribute", Str(<<"[">> \o value \o <<"]">>))
         IN  Result(Put(h1, this, "pseudoClasses", Undef), "ok", this, <<>>)

\* attr writing the attribute before the check of line 169
attr_AssignsFirst(h, this, value) ==
    LET h1 == Put(h, this, "attribute", Str(<<"[">> \o value \o <<"]">>))
    IN  IF Get(h, this, "pseudoClasses").k # "undefined" THEN Raise(h1, ORDER)
        ELSE Result(Put(Put(h1, this, "pseudoClasses", Undef), this, "pseudoElem", Undef),
                    "ok", this, <<>>)

attr(h, this, value) ==
    IF Get(h, this, "pseudoClasses").k # "undefined" THEN Raise(h, ORDER)
    ELSE LET h1 == Put(h, this, "attribute", Str(<<"[">> \o value \o <<"]">>))
             h2 == Put(h1, this, "pseudoClasses", Undef)
         IN  Result(Put(h2, this, "pseudoElem", Undef), "ok", this, <<>>)

\* pseudoClass keeping one concatenated string instead of an array
pseudoClass_AsString(h, this, value) ==
    IF Truthy(Get(h, this, "pseudoElem"))
    THEN Raise(Put(h, this, "pseudoElem", Undef), ORDER)
    ELSE LET old == Get(h, this, "pseudoClasses")
             text == IF old.k = "string" THEN old.v[1] ELSE <<>>
         IN  Result(Put(h, this, "pseudoClasses", Str(text \o <<":">> \o value)),
                    "ok", this, <<>>)

\* pseudoClass without the assignment of line 180
pseudoClass_NoClear(h, this, value) ==
    IF Truthy(Get(h, this, "pseudoElem")) THEN Raise(h, ORDER)
    ELSE LET h1 == IF Get(h, this, "pseudoClasses").k = "undefined"
                   THEN Put(h, this, "pseudoClasses", Arr(<<>>)) ELSE h
         IN  Push(h1, this, "pseudoClasses", <<":">> \o value)

pseudoClass(h, this, value) ==
    IF Truthy(Get(h, this, "pseudoElem"))
    THEN Raise(Put(h, this, "pseudoElem", Undef), ORDER)
    ELSE LET h1 == IF Get(h, this, "pseudoClasses").k = "undefined"
                   THEN Put(h, this, "pseudoClasses", Arr(<<>>)) ELSE h
         IN  Push(h1, this, "pseudoClasses", <<":">> \o value)

pseudoElement(h, this, value) ==
    IF Truthy(Get(h, this, "pseudoElem")) THEN Raise(h, DUP)
    ELSE Result(Put(h, this, "pseudoElem", Str(<<":", ":">> \o value)), "ok", this, <<>>)

\* a.join(sep): only an array has the method
CanJoin(x) == ~Truthy(x) \/ x.k = "array"

\* the string stringify() builds from what the object reads (lines 209-230)
Render(h, this) ==
    LET tag == Get(h, this, "tag")
        myId == Get(h, this, "myId")
        classes == Get(h, this, "classes")
        attribute == Get(h, this, "attribute")
        pseudoClasses == Get(h, this, "pseudoClasses")
        pseudoElem == Get(h, this, "pseudoElem")
        combination == Get(h, this, "combination")
    IN  (IF Truthy(tag) THEN Join(tag.v, <<",">>) ELSE <<>>)
        \o (IF Truthy(myId) THEN <<"#">> \o Join(myId.v, <<",">>) ELSE <<>>)
        \o (IF Truthy(classes) THEN <<".">> \o Join(classes.v, <<".">>) ELSE <<>>)
        \o (IF Truthy(attribute) THEN Join(attribute.v, <<",">>) ELSE <<>>)
        \o (IF Truthy(pseudoClasses) THEN Join(pseudoClasses.v, <<>>) ELSE <<>>)
        \o (IF Truthy(pseudoElem) THEN Join(pseudoElem.v, <<",">>) ELSE <<>>)
        \o (IF Truthy(combination) THEN Join(combination.v, <<",">>) ELSE <<>>)

\* the reset without the assignment of line 238
Reset_KeepsCombination(h, this) ==
    [h EXCEPT ![this] = [f \in Fields |->
                            IF f = "combination" THEN h[this][f] ELSE Undef]]

\* the seven assignments of undefined (lines 232-238)
Reset(h, this) == [h EXCEPT ![this] = [f \in Fields |-> Undef]]

stringify(h, this) ==
    IF ~CanJoin(Get(h, this, "classes")) \/ ~CanJoin(Get(h, this, "pseudoClasses"))
    THEN Raise(h, TYPEERR)
    ELSE Result(Reset(h, this), "ok", 0, Render(h, this))

\* combine reading selector2 without calling its stringify
combine_KeepsRight(h, selector1, combinator, selector2) ==
    LET r1 == stringify(h, selector1)
    IN  IF r1.out # "ok" THEN r1
        ELSE Result(New(r1.h, "combination",
                        Str(r1.str \o <<" ">> \o combinator \o <<" ">>
                            \o Render(r1.h, selector2))),
                    "ok", Len(h) + 1, <<>>)

combine(h, selector1, combinator, selector2) ==
    LET r1 == stringify(h, selector1)
        r2 == stringify(r1.h, selector2)
    IN  IF r1.out # "ok" THEN r1
        ELSE IF r2.out # "ok" THEN r2
        ELSE Result(New(r2.h, "combination",
                        Str(r1.str \o <<" ">> \o combinator \o <<" ">> \o r2.str)),
                    "ok", Len(h) + 1, <<>>)


(* ---------------------------- state machine ---------------------------- *)
\* heap: the objects; prev: the heap before the last call; last: the last call and
\* what it returned or raised; n: calls made so far.
\* chain, calls: the selector a chained expression currently stands on (0: none)
\* and the calls of that expression so far.
VARIABLES heap, prev, last, n, chain, calls
vars == <<heap, prev, last, n, chain, calls>>

Objs == 1..Len(heap)
FragmentOps == {"element", "id", "class", "attr", "pseudoClass", "pseudoElement"}

Call(op, recv, arg, recv2, r) ==
    [op |-> op, recv |-> recv, arg |-> arg, recv2 |-> recv2,
     out |-> r.out, ret |-> r.ret, str |-> r.str]

\* cssSelectorBuilder[op](v) with this = o
Invoke(h, op, o, v) ==
    CASE op = "element" -> element(h, o, v)
      [] op = "id" -> id(h, o, v)
      [] op = "class" -> class(h, o, v)
      [] op = "attr" -> attr(h, o, v)
      [] op = "pseudoClass" -> pseudoClass(h, o, v)
      [] op = "pseudoElement" -> pseudoElement(h, o, v)

\* module load: the object literal owns only its methods
InitHeap == <<EmptyObj>>

Init ==
    /\ heap = InitHeap
    /\ prev = InitHeap
    /\ last = Call("load", 0, <<>>, 0, Raise(InitHeap, "ok"))
    /\ n = 0
    /\ chain = 0
    /\ calls = <<>>

Step(op, recv, arg, recv2, r) ==
    /\ n < MaxCalls
    /\ n' = n + 1
    /\ heap' = r.h
    /\ prev' = heap
    /\ last' = Call(op, recv, arg, recv2, r)

Element(o, v) == Step("element", o, v, 0, element(heap, o, v))
Id(o, v) == Step("id", o, v, 0, id(heap, o, v))
Class(o, v) == Step("class", o, v, 0, class(heap, o, v))
Attr(o, v) == Step("attr", o, v, 0, attr(heap, o, v))
PseudoClass(o, v) == Step("pseudoClass", o, v, 0, pseudoClass(heap, o, v))
PseudoElement(o, v) == Step("pseudoElement", o, v, 0, pseudoElement(heap, o, v))
Stringify(o) == Step("stringify", o, <<>>, 0, stringify(heap, o))
Combine(o1, c, o2) == Step("combine", o1, c, o2, combine(heap, o1, c, o2))

\* a caller that keeps every selector it was handed and calls anything on any of them
Next ==
    /\ UNCHANGED <<chain, calls>>
    /\ \/ \E o \in Objs, v \in Values : Element(o, v)
       \/ \E o \in Objs, v \in Values : Id(o, v)
       \/ \E o \in Objs, v \in Values : Class(o, v)
       \/ \E o \in Objs, v \in Values : Attr(o, v)
       \/ \E o \in Objs, v \in Values : PseudoClass(o, v)
       \/ \E o \in Objs, v \in Values : PseudoElement(o, v)
       \/ \E o \in Objs : Stringify(o)
       \/ \E o1 \in Objs, o2 \in Objs, c \in Combinators : Combine(o1, c, o2)

Spec == Init /\ [][Next]_vars

(* A caller that writes one chained expression after another, each starting at  *)
(* cssSelectorBuilder: builder.a(..).b(..)...  An expression ends with           *)
(* .stringify(), with an error, or is left as it is.                             *)
Start(op, v) ==
    /\ chain = 0
    /\ Step(op, ROOT, v, 0, Invoke(heap, op, ROOT, v))
    /\ calls' = <<[op |-> op, arg |-> v]>>
    /\ chain' = Invoke(heap, op, ROOT, v).ret

Continue(op, v) ==
    /\ chain # 0
    /\ Step(op, chain, v, 0, Invoke(heap, op, chain, v))
    /\ calls' = Append(calls, [op |-> op, arg |-> v])
    /\ chain' = Invoke(heap, op, chain, v).ret

Finish ==
    /\ chain # 0
    /\ Step("stringify", chain, <<>>, 0, stringify(heap, chain))
    /\ calls' = Append(calls, [op |-> "stringify", arg |-> <<>>])
    /\ chain' = 0

Abandon ==
    /\ chain # 0
    /\ chain' = 0
    /\ UNCHANGED <<heap, prev, last, n, calls>>

ChainNext ==
    \/ \E op \in FragmentOps, v \in Values : Start(op, v)
    \/ \E op \in FragmentOps, v \in Values : Continue(op, v)
    \/ Finish
    \/ Abandon

SpecChain == Init /\ [][ChainNext]_vars


(* ------------------------------ vocabulary ----------------------------- *)
\* position of a fragment kind in element, id, class, attribute, pseudo-class, pseudo-element
Rank(op) ==
    CASE op = "element" -> 1
      [] op = "id" -> 2
      [] op = "class" -> 3
      [] op = "attr" -> 4
      [] op = "pseudoClass" -> 5
      [] op = "pseudoElement" -> 6

FieldOf(op) ==
    CASE op = "element" -> "tag"
      [] op = "id" -> "myId"
      [] op = "class" -> "classes"
      [] op = "attr" -> "attribute"
      [] op = "pseudoClass" -> "pseudoClasses"
      [] op = "pseudoElement" -> "pseudoElem"

\* the selector o reads a value for the field: anything but undefined
Exists(h, o, f) == Get(h, o, f).k # "undefined"
\* the selector o reads a fragment that renders: a non-empty string or an array
Present(h, o, f) == Truthy(Get(h, o, f))

Raised == last.out \in {DUP, ORDER}
FragmentCall == last.op \in FragmentOps

(* ------------------------------- claims -------------------------------- *)
\* C1: a fragment call made while a fragment of a later kind (in the order element,
\* id, class, attribute, pseudo-class, pseudo-element) is present on the receiver
\* raises an error; none succeeds.
C1_LaterKindRaises ==
    (/\ FragmentCall
     /\ \E op \in FragmentOps :
           Rank(op) > Rank(last.op) /\ Present(prev, last.recv, FieldOf(op)))
    => Raised

\* the calls of a chained expression, made on an untouched builder: what the
\* expression returns or raises when nothing else has used the builder
RECURSIVE Replay(_, _, _, _)
Replay(h, cur, cs, r) ==
    IF cs = <<>> \/ r.out # "ok" THEN r
    ELSE LET c == Head(cs)
             q == IF c.op = "stringify" THEN stringify(h, cur) ELSE Invoke(h, c.op, cur, c.arg)
         IN  Replay(q.h, q.ret, Tail(cs), q)

Alone(cs) == Replay(InitHeap, ROOT, cs, Raise(InitHeap, "ok"))

RootClean == \A f \in Fields : ~Exists(heap, ROOT, f)

\* C2: chained expressions started on the builder do not leak into each other:
\* when no expression is in progress the builder itself holds no fragment, and what
\* an expression returns or raises is what its own calls give on an untouched builder.
C2_NoLeakBetweenChains ==
    /\ chain = 0 => RootClean
    /\ calls # <<>> => /\ last.out = Alone(calls).out
                       /\ last.str = Alone(calls).str

\* C3 as stated: element, id and pseudoElement called on a selector that already has
\* a value of that kind (any string) raise DuplicateFragment and leave that value.
C3_SingletonsRaiseDuplicate ==
    \A op \in {"element", "id", "pseudoElement"} :
        (last.op = op /\ Exists(prev, last.recv, FieldOf(op)))
        => /\ last.out = DUP
           /\ Get(heap, last.recv, FieldOf(op)) = Get(prev, last.recv, FieldOf(op))

\* C3 as amended: element on a selector with a non-empty element and pseudoElement on
\* a selector with a pseudo-element raise DuplicateFragment; id on a selector with a
\* non-empty id raises DuplicateFragment, or OrderViolation when the selector also has
\* a pseudo-element; the failed call leaves the value of that kind as it was.
C3_SingletonsRaise ==
    /\ (last.op = "element" /\ Present(prev, last.recv, "tag"))
       => /\ last.out = DUP
          /\ Get(heap, last.recv, "tag") = Get(prev, last.recv, "tag")
    /\ (last.op = "id" /\ Present(prev, last.recv, "myId"))
       => /\ last.out = IF Exists(prev, last.recv, "pseudoElem") THEN ORDER ELSE DUP
          /\ Get(heap, last.recv, "myId") = Get(prev, last.recv, "myId")
    /\ (last.op = "pseudoElement" /\ Exists(prev, last.recv, "pseudoElem"))
       => /\ last.out = DUP
          /\ Get(heap, last.recv, "pseudoElem") = Get(prev, last.recv, "pseudoElem")

\* an id call with a new value on a selector that has an id and a pseudo-element
C3_Witness ==
    /\ last.op = "id"
    /\ Present(prev, last.recv, "myId")
    /\ Exists(prev, last.recv, "pseudoElem")
    /\ Get(prev, last.recv, "myId") # Str(last.arg)
    /\ last.out = ORDER

\* the text one fragment call contributes to the selector
Text(c) ==
    CASE c.op = "element" -> c.arg
      [] c.op = "id" -> <<"#">> \o c.arg
      [] c.op = "class" -> <<".">> \o c.arg
      [] c.op = "attr" -> <<"[">> \o c.arg \o <<"]">>
      [] c.op = "pseudoClass" -> <<":">> \o c.arg
      [] c.op = "pseudoElement" -> <<":", ":">> \o c.arg

RECURSIVE Expected(_)
Expected(cs) == IF cs = <<>> THEN <<>> ELSE Text(Head(cs)) \o Expected(Tail(cs))

\* simple := [element] ['#' id] ('.' class)* [attribute] (pseudo-class)* [pseudo-element]
GrammarOrder(cs) ==
    \A i, j \in 1..Len(cs) :
        i < j => \/ Rank(cs[i].op) < Rank(cs[j].op)
                 \/ cs[i].op = cs[j].op /\ cs[i].op \in {"class", "pseudoClass"}

Fragments(cs) == SubSeq(cs, 1, Len(cs) - 1)

\* C4: a chained expression from the builder whose fragment calls follow the grammar
\* order renders exactly the fragments it appended, each in its written form, in that
\* order (an id call with the empty string is left out of the comparison).
C4_RendersGrammar ==
    (/\ last.op = "stringify"
     /\ calls # <<>>
     /\ GrammarOrder(Fragments(calls))
     /\ \A i \in 1..Len(calls) : calls[i].op = "id" => calls[i].arg # <<>>)
    => /\ last.out = "ok"
       /\ last.str = Expected(Fragments(calls))

\* C5: the selector combine(left, c, right) returns renders the string left rendered,
\* a space, c, a space, the string right rendered.
C5_CombineRenders ==
    (last.op = "combine" /\ last.out = "ok")
    => LET r1 == stringify(prev, last.recv)
           r2 == stringify(r1.h, last.recv2)
       IN  stringify(heap, last.ret).str
             = r1.str \o <<" ">> \o last.arg \o <<" ">> \o r2.str

\* C6: after stringify every fragment field of the instance reads undefined and a
\* second stringify on it returns the empty string.
C6_StringifyResets ==
    (last.op = "stringify" /\ last.out = "ok")
    => /\ \A f \in Fields : ~Exists(heap, last.recv, f)
       /\ stringify(heap, last.recv).str = <<>>

\* a selector created from a builder that holds fragments of its own has rendered text
C6_Witness ==
    /\ last.op = "stringify"
    /\ last.recv # ROOT
    /\ last.str # <<>>
    /\ \E f \in Fields : Exists(heap, ROOT, f)

\* C7 as stated: id on a selector that has a class, a pseudo-class or a
\* pseudo-element raises OrderViolation.
C7_IdAfterLaterRaisesOrder ==
    (/\ last.op = "id"
     /\ \E f \in {"classes", "pseudoClasses", "pseudoElem"} : Exists(prev, last.recv, f))
    => last.out = ORDER

\* C7 as amended: such an id call always raises: DuplicateFragment when the selector
\* has a non-empty id and no pseudo-element, OrderViolation otherwise.
C7_IdAfterLaterRaises ==
    (/\ last.op = "id"
     /\ \E f \in {"classes", "pseudoClasses", "pseudoElem"} : Exists(prev, last.recv, f))
    => last.out = IF Present(prev, last.recv, "myId") /\ ~Exists(prev, last.recv, "pseudoElem")
                  THEN DUP ELSE ORDER

\* id after class, with neither an id nor a pseudo-element on the selector
C7_Witness ==
    /\ last.op = "id"
    /\ Exists(prev, last.recv, "classes")
    /\ ~Exists(prev, last.recv, "pseudoElem")
    /\ ~Exists(prev, last.recv, "myId")
    /\ last.out = ORDER

\* C8 as stated: element on a selector that has an id raises OrderViolation and
\* returns no selector.
C8_ElementAfterIdRaisesOrder ==
    (last.op = "element" /\ Exists(prev, last.recv, "myId"))
    => last.out = ORDER /\ last.ret = 0

\* C8 as amended: element on a selector that has a non-empty id raises and returns
\* no selector: DuplicateFragment when the selector also has a non-empty element,
\* OrderViolation otherwise.
C8_ElementAfterIdRaises ==
    (last.op = "element" /\ Present(prev, last.recv, "myId"))
    => /\ last.out = IF Present(prev, last.recv, "tag") THEN DUP ELSE ORDER
       /\ last.ret = 0
       /\ Len(heap) = Len(prev)

\* element on a selector that has an id and no element
C8_Witness ==
    /\ last.op = "element"
    /\ Present(prev, last.recv, "myId")
    /\ ~Exists(prev, last.recv, "tag")
    /\ last.out = ORDER

\* C9: class raises OrderViolation whenever the selector has an attribute, attr
\* whenever it has at least one pseudo-class, pseudoClass whenever it has a
\* pseudo-element.
C9_AdjacentOrderChecks ==
    /\ (last.op = "class" /\ Exists(prev, last.recv, "attribute")) => last.out = ORDER
    /\ (/\ last.op = "attr"
        /\ Get(prev, last.recv, "pseudoClasses").k = "array"
        /\ Len(Get(prev, last.recv, "pseudoClasses").v) >= 1) => last.out = ORDER
    /\ (last.op = "pseudoClass" /\ Exists(prev, last.recv, "pseudoElem")) => last.out = ORDER

\* class called on a selector that has classes and an attribute
C9_Witness ==
    /\ last.op = "class"
    /\ Exists(prev, last.recv, "attribute")
    /\ Exists(prev, last.recv, "classes")
    /\ last.out = ORDER

\* C10: stringify and combine never raise: whatever calls came before (failed
\* ones and earlier stringify calls included) and whichever selectors they are
\* given, a stringify or combine call returns normally.
C10_NeverRaise ==
    last.op \in {"stringify", "combine"} => last.out = "ok"

\* combine has returned for operands that hold a pseudo-class list and a class list
C10_Witness ==
    /\ last.op = "combine"
    /\ last.out = "ok"
    /\ Exists(prev, last.recv, "pseudoClasses")
    /\ Exists(prev, last.recv2, "classes")

\* C11: combine consumes its operands: after it returns, left and right read
\* undefined in every fragment field and render '' again, and the selector returned
\* is a new object, neither left nor right, that owns the combined string and
\* nothing else.
C11_CombineConsumes ==
    (last.op = "combine" /\ last.out = "ok")
    => LET r1 == stringify(prev, last.recv)
           r2 == stringify(r1.h, last.recv2)
       IN  /\ \A o \in {last.recv, last.recv2} :
                /\ \A f \in Fields : ~Exists(heap, o, f)
                /\ stringify(heap, o).str = <<>>
           /\ last.ret \notin 1..Len(prev)
           /\ last.ret \in Objs
           /\ heap[last.ret] =
                [EmptyObj EXCEPT !["combination"] =
                    Str(r1.str \o <<" ">> \o last.arg \o <<" ">> \o r2.str)]

\* two different selectors, each with text of its own, have been combined
C11_Witness ==
    /\ last.op = "combine"
    /\ last.out = "ok"
    /\ last.recv # last.recv2
    /\ Render(prev, last.recv) # <<>>
    /\ Render(prev, last.recv2) # <<>>

\* C12: a successful id(value) on a receiver that has a (non-empty) element returns
\* the receiver, with the id set and everything else as it was; on any other
\* receiver it returns a new object, not the receiver, that owns the id and nothing
\* else, and the receiver and every other object stay as they were.
C12_IdFrame ==
    (last.op = "id" /\ last.out = "ok")
    => IF Present(prev, last.recv, "tag")
       THEN /\ last.ret = last.recv
            /\ heap = [prev EXCEPT ![last.recv]["myId"] = Str(last.arg)]
       ELSE /\ last.ret # last.recv
            /\ last.ret \notin 1..Len(prev)
            /\ heap = Append(prev, [EmptyObj EXCEPT !["myId"] = Str(last.arg)])
            /\ heap[last.ret] = [EmptyObj EXCEPT !["myId"] = Str(last.arg)]

\* id has been set on a receiver that already held an element and an attribute
C12_Witness ==
    /\ last.op = "id"
    /\ last.out = "ok"
    /\ last.ret = last.recv
    /\ Present(prev, last.recv, "tag")
    /\ Exists(prev, last.recv, "attribute")
    /\ last.arg # <<>>

\* the list a selector reads in a field, empty when it reads undefined
ListOf(h, o, f) == IF Get(h, o, f).k = "array" THEN Get(h, o, f).v ELSE <<>>

\* C13: class(value) raises only because of an attribute, never because of a
\* pseudo-class or a pseudo-element; when it succeeds it returns the receiver, the
\* receiver's class list is the earlier list with value added at the end, the
\* receiver has no pseudo-class left, and its element, id, attribute and
\* pseudo-element are as they were.
C13_ClassFrame ==
    last.op = "class"
    => /\ last.out = IF Exists(prev, last.recv, "attribute") THEN ORDER ELSE "ok"
       /\ last.out = "ok"
          => /\ last.ret = last.recv
             /\ Get(heap, last.recv, "classes")
                  = Arr(Append(ListOf(prev, last.recv, "classes"), last.arg))
             /\ ~Exists(heap, last.recv, "pseudoClasses")
             /\ \A f \in {"tag", "myId", "attribute", "pseudoElem"} :
                   Get(heap, last.recv, f) = Get(prev, last.recv, f)

\* a second class has been added to a selector that held a class and a pseudo-class
C13_Witness ==
    /\ last.op = "class"
    /\ last.out = "ok"
    /\ Len(ListOf(prev, last.recv, "classes")) >= 1
    /\ Len(ListOf(prev, last.recv, "pseudoClasses")) >= 1
    /\ ListOf(prev, last.recv, "classes")[1] # last.arg

C15_PseudoClassClearsOnFailure ==
    (last.op = "pseudoClass" /\ Exists(prev, last.recv, "pseudoElem"))
    => /\ last.out = ORDER
       /\ last.ret = 0
       /\ ~Exists(heap, last.recv, "pseudoElem")
       /\ \A f \in Fields \ {"pseudoElem"} :
             Get(heap, last.recv, f) = Get(prev, last.recv, f)
       /\ heap = Put(prev, last.recv, "pseudoElem", Undef)
       /\ \A v \in Values : pseudoClass(heap, last.recv, v).out = "ok"

\* pseudoClass has failed on a selector that held an element and a pseudo-element
C15_Witness ==
    /\ last.op = "pseudoClass"
    /\ last.out = ORDER
    /\ Exists(prev, last.recv, "pseudoElem")
    /\ Present(prev, last.recv, "tag")

\* C16: a call of element, id, class, attr or pseudoElement that raises changes
\* nothing: every object, the receiver and the builder included, is as before the
\* call, no object has been added, and the caller gets no selector.
C16_FailedCallChangesNothing ==
    (last.op \in {"element", "id", "class", "attr", "pseudoElement"} /\ last.out # "ok")
    => /\ heap = prev
       /\ last.ret = 0

\* attr has failed on a selector, not the builder, that held an element and a
\* pseudo-class
C16_Witness ==
    /\ last.op = "attr"
    /\ last.out = ORDER
    /\ Present(prev, last.recv, "tag")
    /\ Exists(prev, last.recv, "pseudoClasses")

\* the heap with the empty-string element and id of o taken away
WithoutEmpty(h, o) ==
    LET h1 == IF Get(h, o, "tag") = Str(<<>>) THEN Put(h, o, "tag", Undef) ELSE h
    IN  IF Get(h1, o, "myId") = Str(<<>>) THEN Put(h1, o, "myId", Undef) ELSE h1

\* C17: an element or id set to the empty string counts as absent: element on a
\* selector whose element is '' does not raise DuplicateFragment, id on a selector
\* whose id is '' does not raise DuplicateFragment, element on a selector whose id
\* is '' does not raise OrderViolation, and stringify renders such a selector as if
\* the fragment were not there, without the '#' of an empty id.
C17_EmptyCountsAsAbsent ==
    /\ (last.op = "element" /\ Get(prev, last.recv, "tag") = Str(<<>>)) => last.out # DUP
    /\ (last.op = "id" /\ Get(prev, last.recv, "myId") = Str(<<>>)) => last.out # DUP
    /\ (last.op = "element" /\ Get(prev, last.recv, "myId") = Str(<<>>)) => last.out # ORDER
    /\ (/\ last.op = "stringify"
        /\ \/ Get(prev, last.recv, "tag") = Str(<<>>)
           \/ Get(prev, last.recv, "myId") = Str(<<>>))
       => last.str = Render(WithoutEmpty(prev, last.recv), last.recv)

\* id('') has been replaced by another id on a selector that has an element
C17_Witness ==
    /\ last.op = "id"
    /\ Get(prev, last.recv, "myId") = Str(<<>>)
    /\ Present(prev, last.recv, "tag")
    /\ last.out = "ok"
    /\ last.arg # <<>>

====
